---- MODULE Spec2Model ----
(***************************************************************************)
(* Model of the Netlify libdns client (client.go): the zone resolver with  *)
(* its mutex-guarded cache (getZoneInfo), the authenticated transport      *)
(* (doAPIRequest) and the record operations (createRecord, updateRecord,   *)
(* getDNSRecords).                                                         *)
(*                                                                         *)
(* Strings that the code inspects character by character (zone names) are  *)
(* sequences of one-character strings.  The HTTP server is the environment:*)
(* it answers a request that is in flight with any response.               *)
(***************************************************************************)
EXTENDS Integers, Sequences, FiniteSets, TLC

\* ---------------------------------------------------------------- bounds
\* number of goroutines calling into one Provider concurrently
NumCallers == 2
\* largest number of trailing "." on a zone name handed to getZoneInfo
MaxDots == 2
\* largest number of zones the provider puts in one listing
MaxListing == 2

Procs == 1..NumCallers

\* ---------------------------------------------------------------- values
Labels == {"a"}
ZoneIDs == {"z1", "z2"}
Statuses == {200, 399, 400, 404, 429, 500}

RECURSIVE Dots(_)
Dots(k) == IF k = 0 THEN <<>> ELSE <<".">> \o Dots(k - 1)

\* the zone names callers pass: a label followed by 0..MaxDots separators
ZoneNames == {<<l>> \o Dots(k) : l \in Labels, k \in 0..MaxDots}

NoName == <<>>

\* netlifyZone{} (the zero value) and the zones a listing can carry
EmptyZone == [ID |-> "", Name |-> NoName]
netlifyZone(id, name) == [ID |-> id, Name |-> name]

\* netlifyDNSRecord: the wire form of a record; EmptyRec is netlifyDNSRecord{}
RecFields == {"ID", "Name", "DNSZoneID", "Type", "Content", "TTL"}
EmptyRec == [ID |-> "", Name |-> NoName, DNSZoneID |-> "", Type |-> "", Content |-> "", TTL |-> 0]
StoredRec == [ID |-> "r1", Name |-> <<"f", ".", "a">>, DNSZoneID |-> "z1", Type |-> "TXT",
              Content |-> "bar", TTL |-> 600]
DNSRecords ==
    [ID : {""}, Name : {NoName, <<"f", ".", "a">>}, DNSZoneID : {""},
     Type : {"", "TXT"}, Content : {"", "bar"}, TTL : {0, 600}]
    \cup {StoredRec}

\* libdns.Record: the caller's form of a record, named relative to its zone
EmptyRecord == [Name |-> NoName, Type |-> "", TTL |-> 0, Value |-> ""]
LibdnsRecords == [Name : {NoName, <<"@">>, <<"f">>}, Type : {"TXT"}, TTL : {300}, Value : {"", "bar"}]

\* identifiers whose text does not parse as part of a URL (a stray "%")
BadIDs == {"z%", "r%"}
ZoneArgs == {netlifyZone("z1", <<"a">>), netlifyZone("z%", <<"a">>)}
OldRecords == {[EmptyRec EXCEPT !.ID = id, !.DNSZoneID = "z1"] : id \in {"", "r1", "r%"}}
Contexts == {"nil", "live"}

\* (record fields and set members are written throughout in the order in which
\* TLC keeps them, so that no worker ever has to reorder a shared value)

\* error values; kind "none" is a nil error
NoErr == [name |-> NoName, kind |-> "none", code |-> 0]
EncodeErr == [name |-> NoName, kind |-> "encode", code |-> 0]
BuildErr == [name |-> NoName, kind |-> "build", code |-> 0]
DoErr == [name |-> NoName, kind |-> "transport", code |-> 0]
ReadErr == [name |-> NoName, kind |-> "transport", code |-> 1]
CancelErr == [name |-> NoName, kind |-> "transport", code |-> 2]
StatusErr(status) == [name |-> NoName, kind |-> "status", code |-> status]
DecodeErr == [name |-> NoName, kind |-> "decode", code |-> 0]
CountErr(n, zoneName) == [name |-> zoneName, kind |-> "count", code |-> n]

\* response bodies: a byte string is modelled by what it decodes to
NilBytes == [shape |-> "nil", items |-> <<>>]
GarbageBody == [shape |-> "garbage", items |-> <<>>]
ZonesBody(zs) == [shape |-> "zones", items |-> zs]
RecordBody(r) == [shape |-> "record", items |-> <<r>>]
RecordsBody(rs) == [shape |-> "records", items |-> rs]

\* what http.DefaultClient.Do and io.ReadAll can produce for one request
NoResp == [kind |-> "none", status |-> 0, readOk |-> FALSE, body |-> NilBytes]
ConnFail == [kind |-> "connErr", status |-> 0, readOk |-> FALSE, body |-> NilBytes]
\* the caller's context is cancelled during the round trip: before the response
\* head arrived (status 0, Do fails) or while the body is read (ReadAll fails)
Cancelled(status) == [kind |-> "cancelled", status |-> status, readOk |-> FALSE, body |-> NilBytes]
HTTPResp(status, readOk, body) ==
    [kind |-> "resp", status |-> status, readOk |-> readOk,
     body |-> IF readOk THEN body ELSE NilBytes]

\* all sequences over S of length 0..n
RECURSIVE SeqsUpTo(_, _)
SeqsUpTo(S, n) ==
    IF n = 0 THEN {<<>>}
    ELSE LET shorter == SeqsUpTo(S, n - 1)
         IN shorter \cup {Append(s, x) : s \in {t \in shorter : Len(t) = n - 1}, x \in S}

\* a failed round trip, a cancelled one, a response whose body cannot be read, a
\* response read in full; with a status >= 400 the body is not looked at, and a few bodies stand
\* for all
ResponsesWith(bodies) ==
    {ConnFail, Cancelled(0), Cancelled(200)}
               \cup {HTTPResp(s, FALSE, NilBytes) : s \in Statuses}
               \cup {HTTPResp(s, TRUE, b) : s \in {t \in Statuses : t < 400}, b \in bodies}
               \cup {HTTPResp(s, TRUE, b) : s \in {t \in Statuses : t >= 400},
                                            b \in {c \in bodies : Len(c.items) <= 1}}

\* the provider's answers to GET /dns_zones?name=n
Listings(n) == {[i \in 1..Len(ids) |-> netlifyZone(ids[i], n)] : ids \in SeqsUpTo(ZoneIDs, MaxListing)}
ZoneResponses(n) == ResponsesWith({GarbageBody} \cup {ZonesBody(zs) : zs \in Listings(n)})

\* the provider's answers to the record endpoints
RecordResponses ==
    ResponsesWith({RecordBody(StoredRec), GarbageBody, RecordsBody(<<>>), RecordsBody(<<StoredRec>>)})

\* ---------------------------------------------------------------- pure code
\* strings.TrimRight(s, "."): drops every trailing "."
RECURSIVE TrimRight(_)
TrimRight(s) ==
    IF Len(s) > 0 /\ s[Len(s)] = "."
    THEN TrimRight(SubSeq(s, 1, Len(s) - 1))
    ELSE s

\* libdns.AbsoluteName(name, zone)
AbsoluteName(name, zone) ==
    IF zone = NoName THEN TrimRight(name)
    ELSE IF name = NoName \/ name = <<"@">> THEN zone
    ELSE IF name[Len(name)] # "." THEN name \o <<".">> \o zone
    ELSE name \o zone

\* doAPIRequest with the status looked at before the read error
doAPIRequestStatusFirst(r) ==
    IF r.kind = "connErr" THEN [bytes |-> NilBytes, err |-> DoErr]
    ELSE IF r.kind = "cancelled" /\ r.status = 0 THEN [bytes |-> NilBytes, err |-> CancelErr]
    ELSE IF r.status >= 400 THEN [bytes |-> NilBytes, err |-> StatusErr(r.status)]
    ELSE IF ~r.readOk THEN [bytes |-> NilBytes, err |-> ReadErr]
    ELSE [bytes |-> r.body, err |-> NoErr]

\* doAPIRequest with 400 itself taken for a success
doAPIRequestAbove400(r) ==
    IF r.kind = "connErr" THEN [bytes |-> NilBytes, err |-> DoErr]
    ELSE IF r.kind = "cancelled" /\ r.status = 0 THEN [bytes |-> NilBytes, err |-> CancelErr]
    ELSE IF ~r.readOk THEN [bytes |-> NilBytes, err |-> ReadErr]
    ELSE IF r.status > 400 THEN [bytes |-> NilBytes, err |-> StatusErr(r.status)]
    ELSE [bytes |-> r.body, err |-> NoErr]

\* doAPIRequest after the round trip: (bytes, err) from what Do/ReadAll gave
doAPIRequest(r) ==
    IF r.kind = "connErr" THEN [bytes |-> NilBytes, err |-> DoErr]
    ELSE IF r.kind = "cancelled" /\ r.status = 0 THEN [bytes |-> NilBytes, err |-> CancelErr]
    ELSE IF ~r.readOk THEN [bytes |-> NilBytes, err |-> ReadErr]
    ELSE IF r.status >= 400 THEN [bytes |-> NilBytes, err |-> StatusErr(r.status)]
    ELSE [bytes |-> r.body, err |-> NoErr]

\* an operation that sends the request again when the provider is busy or failing
AfterRoundTripRetry(err) ==
    IF err.kind = "status" /\ err.code \in {429, 500} THEN "retry" ELSE "return"

\* p.zonesMu.Lock() taken as granted whoever holds the mutex
LockFreeAlways(mu) == TRUE

\* p.zonesMu.Lock() returns only when no caller holds the mutex
LockFree(mu) == mu = 0

\* getZoneInfo unlocking by hand before its successful return only
UnlockOnSuccess(holder, err) == IF err.kind = "none" THEN 0 ELSE holder

\* defer p.zonesMu.Unlock(): the mutex after getZoneInfo has returned err
DeferredUnlock(holder, err) == 0

\* a record operation taking p.zonesMu before it does anything
RecordOpNeedsLock(mu) == mu = 0

\* createRecord, updateRecord and getDNSRecords start whatever the state of
\* p.zonesMu: none of them names the mutex or p.zones
RecordOpMayStart(mu) == TRUE

\* what an operation does once doAPIRequest has returned err: every caller of
\* doAPIRequest returns the error, none sends the request again
AfterRoundTrip(err) == "return"

\* json.Unmarshal(resp, &zones)
UnmarshalZones(bytes) ==
    IF bytes.shape = "zones"
    THEN [err |-> NoErr, zones |-> bytes.items]
    ELSE [err |-> DecodeErr, zones |-> <<>>]

\* json.Unmarshal(res, &result) into one netlifyDNSRecord
UnmarshalRecord(bytes) ==
    IF bytes.shape = "record"
    THEN [err |-> NoErr, rec |-> bytes.items[1]]
    ELSE [err |-> DecodeErr, rec |-> EmptyRec]

\* json.Unmarshal(res, &results) into []netlifyDNSRecord
UnmarshalRecords(bytes) ==
    IF bytes.shape = "records"
    THEN [err |-> NoErr, recs |-> bytes.items]
    ELSE [err |-> DecodeErr, recs |-> <<>>]

\* json.Marshal of a netlifyDNSRecord: a field is written when it is not empty
IsEmptyField(rec, f) ==
    IF f = "TTL" THEN rec.TTL = 0
    ELSE IF f = "Name" THEN rec.Name = NoName
    ELSE rec[f] = ""
MarshalDNSRecord(rec) ==
    [has |-> TRUE, present |-> {f \in RecFields : ~IsEmptyField(rec, f)}, val |-> rec]

\* json.Marshal(netlifyRecord(record)): the libdns record in wire field names
MarshalRecord(record) ==
    [has |-> TRUE, present |-> {"Name", "Type", "Content", "TTL"},
     val |-> [EmptyRec EXCEPT !.Type = record.Type, !.Name = record.Name,
                              !.Content = record.Value, !.TTL = record.TTL]]
NoBody == [has |-> FALSE, present |-> {}, val |-> EmptyRec]

\* requests: method, path under baseURL, query string, body
NoQuery == [name |-> NoName, keys |-> {}, type |-> "", content |-> ""]
NoReq == [body |-> NoBody, method |-> "", path |-> <<>>, query |-> NoQuery]

\* http.NewRequestWithContext fails on a nil context and on a URL that does not parse
BuildOk(c, ids) == c # "nil" /\ ids \cap BadIDs = {}

\* the request getZoneInfo builds
ZoneReq(name) ==
    [body |-> NoBody, method |-> "GET",
     path |-> <<"dns_zones">>,
     query |-> [name |-> name, keys |-> {"name"}, type |-> "", content |-> ""]]

\* the request createRecord builds
CreateReq(zoneInfo, record) ==
    [body |-> MarshalRecord(record), method |-> "POST",
     path |-> <<"dns_zones", zoneInfo.ID, "dns_records">>, query |-> NoQuery]

\* updateRecord replacing the whole record
UpdateMethodPut == "PUT"

\* the method updateRecord sends its request with
UpdateMethod == "PATCH"

\* the request updateRecord builds
UpdateReq(oldRec, newRec) ==
    [body |-> MarshalDNSRecord(newRec),
     method |-> UpdateMethod,
     path |-> <<"dns_zones", oldRec.DNSZoneID, "dns_records", oldRec.ID>>, query |-> NoQuery]

\* getDNSRecords filtering by content whether asked to or not
ListReqAlwaysContent(zoneInfo, rec, matchContent) ==
    [body |-> NoBody, method |-> "GET",
     path |-> <<"zones", zoneInfo.ID, "dns_records">>,
     query |-> [name |-> AbsoluteName(rec.Name, zoneInfo.Name),
                keys |-> {"name", "type", "content"},
                type |-> rec.Type,
                content |-> rec.Value]]

\* the request getDNSRecords builds
ListReq(zoneInfo, rec, matchContent) ==
    [body |-> NoBody, method |-> "GET",
     path |-> <<"zones", zoneInfo.ID, "dns_records">>,
     query |-> [name |-> AbsoluteName(rec.Name, zoneInfo.Name),
                keys |-> {"name", "type"} \cup (IF matchContent THEN {"content"} ELSE {}),
                type |-> rec.Type,
                content |-> IF matchContent THEN rec.Value ELSE ""]]

\* the map lookup p.zones[zoneName] of getZoneInfo, made with the name as passed
CacheKey(zoneName) == zoneName

\* the name queried and stored left as the caller wrote it
QueryNameRaw(zoneName) == zoneName

\* the name getZoneInfo queries the provider with and stores the zone under
QueryName(zoneName) == TrimRight(zoneName)

\* p.zones[key] = zone
MapSet(m, key, zone) == [k \in DOMAIN m \cup {key} |-> IF k = key THEN zone ELSE m[k]]

\* getZoneInfo caching the first zone of the listing before it checks the count
getZoneInfoFinishStoreEarly(cache, zoneName, api) ==
    LET dec == UnmarshalZones(api.bytes)
        name == QueryName(zoneName)
        stored == IF Len(dec.zones) >= 1 THEN MapSet(cache, name, dec.zones[1]) ELSE cache
    IN  IF api.err.kind # "none" THEN [zone |-> EmptyZone, err |-> api.err, zones |-> cache]
        ELSE IF dec.err.kind # "none" THEN [zone |-> EmptyZone, err |-> dec.err, zones |-> cache]
        ELSE IF Len(dec.zones) # 1
             THEN [zone |-> EmptyZone, err |-> CountErr(Len(dec.zones), name), zones |-> stored]
        ELSE [zone |-> dec.zones[1], err |-> NoErr, zones |-> stored]

\* getZoneInfo taking the first zone of any listing that is not empty
getZoneInfoFinishAtLeastOne(cache, zoneName, api) ==
    LET dec == UnmarshalZones(api.bytes)
        name == QueryName(zoneName)
    IN  IF api.err.kind # "none" THEN [zone |-> EmptyZone, err |-> api.err, zones |-> cache]
        ELSE IF dec.err.kind # "none" THEN [zone |-> EmptyZone, err |-> dec.err, zones |-> cache]
        ELSE IF Len(dec.zones) < 1
             THEN [zone |-> EmptyZone, err |-> CountErr(Len(dec.zones), name), zones |-> cache]
        ELSE [zone |-> dec.zones[1], err |-> NoErr, zones |-> MapSet(cache, name, dec.zones[1])]

\* getZoneInfo from the return of doAPIRequest to its own return:
\* the new cache, the zone returned and the error returned
getZoneInfoFinish(cache, zoneName, api) ==
    LET dec == UnmarshalZones(api.bytes)
        name == QueryName(zoneName)
    IN  IF api.err.kind # "none" THEN [zone |-> EmptyZone, err |-> api.err, zones |-> cache]
        ELSE IF dec.err.kind # "none" THEN [zone |-> EmptyZone, err |-> dec.err, zones |-> cache]
        ELSE IF Len(dec.zones) # 1
             THEN [zone |-> EmptyZone, err |-> CountErr(Len(dec.zones), name), zones |-> cache]
        ELSE [zone |-> dec.zones[1], err |-> NoErr, zones |-> MapSet(cache, name, dec.zones[1])]

\* createRecord and updateRecord logging a body they cannot decode and going on
recordFinishDecodeLogged(api) ==
    LET dec == UnmarshalRecord(api.bytes)
    IN  IF api.err.kind # "none" THEN [err |-> api.err, rec |-> EmptyRec, recs |-> <<>>]
        ELSE [err |-> NoErr, rec |-> dec.rec, recs |-> <<>>]

\* createRecord and updateRecord from the return of doAPIRequest to their return
recordFinish(api) ==
    LET dec == UnmarshalRecord(api.bytes)
    IN  IF api.err.kind # "none" THEN [err |-> api.err, rec |-> EmptyRec, recs |-> <<>>]
        ELSE IF dec.err.kind # "none" THEN [err |-> dec.err, rec |-> EmptyRec, recs |-> <<>>]
        ELSE [err |-> NoErr, rec |-> dec.rec, recs |-> <<>>]

\* getDNSRecords from the return of doAPIRequest to its return
getDNSRecordsFinish(api) ==
    LET dec == UnmarshalRecords(api.bytes)
    IN  IF api.err.kind # "none" THEN [err |-> api.err, rec |-> EmptyRec, recs |-> <<>>]
        ELSE IF dec.err.kind # "none" THEN [err |-> dec.err, rec |-> EmptyRec, recs |-> <<>>]
        ELSE [err |-> NoErr, rec |-> EmptyRec, recs |-> dec.recs]

\* ---------------------------------------------------------------- state
VARIABLES
    zones,      \* p.zones: the zone cache, a map from name to netlifyZone
    zonesNil,   \* p.zones == nil
    zonesMu,    \* p.zonesMu: 0 when free, else the caller holding it
    pc,         \* where each caller is: "idle", "wait", "inflight", "ret"
    op,         \* the operation the caller is in or was last in
    arg,        \* zoneName of the caller's getZoneInfo call
    in,         \* the arguments of the caller's record operation
    req,        \* the request the call has built
    net,        \* the round trip's outcome once the server has answered
    api,        \* what doAPIRequest returned to the call
    sent,       \* HTTP requests sent by the caller's current or last invocation
    ret,        \* what the caller's last call returned: [zone, rec, recs, err]
    observe,    \* whether a returned call's frame is kept until the caller's next call
    after,      \* how the call's name relates to the caller's previous, successful call
    expect,     \* the zone that previous call returned, when after # "none"
    joined      \* while the call waited, a fetch for the same name succeeded

vars == <<zones, zonesNil, zonesMu, pc, op, arg, in, req, net, api, sent, ret,
          observe, after, expect, joined>>

NoRet == [zone |-> EmptyZone, err |-> NoErr, rec |-> EmptyRec, recs |-> <<>>]
NoApi == [bytes |-> NilBytes, err |-> NoErr]
NoIn == [zone |-> EmptyZone, record |-> EmptyRecord, matchContent |-> FALSE, ctx |-> "live", encOk |-> TRUE,
         old |-> EmptyRec, new |-> EmptyRec]

\* n and n + "." are the two forms of one zone name
IsOtherForm(n, z) == n = Append(z, ".") \/ z = Append(n, ".")

InitState ==
    /\ zones = <<>>
    /\ zonesNil = TRUE
    /\ zonesMu = 0
    /\ pc = [p \in Procs |-> "idle"]
    /\ op = [p \in Procs |-> ""]
    /\ arg = [p \in Procs |-> NoName]
    /\ in = [p \in Procs |-> NoIn]
    /\ req = [p \in Procs |-> NoReq]
    /\ net = [p \in Procs |-> NoResp]
    /\ api = [p \in Procs |-> NoApi]
    /\ sent = [p \in Procs |-> 0]
    /\ ret = [p \in Procs |-> NoRet]
    /\ after = [p \in Procs |-> "none"]
    /\ expect = [p \in Procs |-> EmptyZone]
    /\ joined = [p \in Procs |-> FALSE]

\* any number of callers; a call's frame is gone once it has returned
Init == InitState /\ observe = FALSE

\* the same client, with each returned call's frame kept for inspection
InitOne == InitState /\ observe = TRUE

\* a call returns: without observation its frame is gone
PopFrame(p) ==
    /\ arg' = [arg EXCEPT ![p] = IF observe THEN @ ELSE NoName]
    /\ in' = [in EXCEPT ![p] = IF observe THEN @ ELSE NoIn]
    /\ req' = [req EXCEPT ![p] = IF observe THEN @ ELSE NoReq]
    /\ net' = [net EXCEPT ![p] = IF observe THEN @ ELSE NoResp]
    /\ after' = [after EXCEPT ![p] = IF observe THEN @ ELSE "none"]
    /\ expect' = [expect EXCEPT ![p] = IF observe THEN @ ELSE EmptyZone]

\* a call begins: the frame of the caller's previous call is replaced
NewFrame(p, o) ==
    /\ pc[p] \in {"ret", "idle"}
    /\ op' = [op EXCEPT ![p] = o]
    /\ net' = [net EXCEPT ![p] = NoResp]
    /\ api' = [api EXCEPT ![p] = NoApi]
    /\ joined' = [joined EXCEPT ![p] = FALSE]

\* the caller's previous call was getZoneInfo(n) and returned a zone
PrevResolved(p, n) ==
    /\ observe
    /\ pc[p] = "ret"
    /\ op[p] = "getZoneInfo"
    /\ ret[p].err.kind = "none"
    /\ arg[p] = n

\* ---------------------------------------------------------------- getZoneInfo
\* a caller invokes getZoneInfo(ctx, zoneName) and blocks on p.zonesMu.Lock()
CallGetZoneInfo(p, z) ==
    /\ NewFrame(p, "getZoneInfo")
    /\ pc' = [pc EXCEPT ![p] = "wait"]
    /\ arg' = [arg EXCEPT ![p] = z]
    /\ in' = [in EXCEPT ![p] = NoIn]
    /\ req' = [req EXCEPT ![p] = NoReq]
    /\ sent' = [sent EXCEPT ![p] = 0]
    /\ ret' = [ret EXCEPT ![p] = NoRet]
    /\ after' = [after EXCEPT ![p] =
                    IF PrevResolved(p, z) THEN "same"
                    ELSE IF \E n \in ZoneNames : IsOtherForm(n, z) /\ PrevResolved(p, n)
                         THEN "other"
                    ELSE "none"]
    /\ expect' = [expect EXCEPT ![p] =
                    IF \E n \in ZoneNames : (n = z \/ IsOtherForm(n, z)) /\ PrevResolved(p, n)
                    THEN ret[p].zone ELSE EmptyZone]
    /\ UNCHANGED <<zones, zonesNil, zonesMu, observe>>

\* Lock() succeeds and the cache holds the name: return it, Unlock() (deferred)
LockAndHit(p) ==
    /\ pc[p] = "wait"
    /\ LockFree(zonesMu)
    /\ CacheKey(arg[p]) \in DOMAIN zones
    /\ zonesNil' = FALSE
    /\ ret' = [ret EXCEPT ![p] = [NoRet EXCEPT !.zone = zones[CacheKey(arg[p])]]]
    /\ pc' = [pc EXCEPT ![p] = "ret"]
    /\ PopFrame(p)
    /\ UNCHANGED <<zones, zonesMu, op, api, sent, joined, observe>>

\* Lock() succeeds, the lookup misses and http.NewRequestWithContext fails
\* (the caller passed a nil context): nothing is sent
LockAndBuildFail(p) ==
    /\ pc[p] = "wait"
    /\ LockFree(zonesMu)
    /\ CacheKey(arg[p]) \notin DOMAIN zones
    /\ zonesNil' = FALSE
    /\ ret' = [ret EXCEPT ![p] = [NoRet EXCEPT !.err = BuildErr]]
    /\ pc' = [pc EXCEPT ![p] = "ret"]
    /\ PopFrame(p)
    /\ UNCHANGED <<zones, zonesMu, op, api, sent, joined, observe>>

\* Lock() succeeds, the lookup misses, the request is built and sent;
\* the caller keeps the lock while http.DefaultClient.Do is in flight
LockAndSend(p) ==
    /\ pc[p] = "wait"
    /\ LockFree(zonesMu)
    /\ CacheKey(arg[p]) \notin DOMAIN zones
    /\ zonesNil' = FALSE
    /\ zonesMu' = p
    /\ req' = [req EXCEPT ![p] = ZoneReq(QueryName(arg[p]))]
    /\ sent' = [sent EXCEPT ![p] = sent[p] + 1]
    /\ pc' = [pc EXCEPT ![p] = "inflight"]
    /\ UNCHANGED <<zones, op, arg, in, net, api, ret, after, expect, joined, observe>>

\* the network: the round trip of an in-flight request completes some way
ServerRespond(p, r) ==
    /\ pc[p] = "inflight"
    /\ net[p] = NoResp
    /\ net' = [net EXCEPT ![p] = r]
    /\ UNCHANGED <<zones, zonesNil, zonesMu, pc, op, arg, in, req, api, sent, ret,
                   after, expect, joined, observe>>

\* the request goes out once more (no operation of the client does this)
SendAgain(p) ==
    /\ sent' = [sent EXCEPT ![p] = sent[p] + 1]
    /\ net' = [net EXCEPT ![p] = NoResp]
    /\ UNCHANGED <<zones, zonesNil, zonesMu, pc, op, arg, in, req, api, ret,
                   after, expect, joined, observe>>

\* doAPIRequest returns r's outcome; getZoneInfo decodes, checks the count,
\* stores, returns, and the deferred Unlock() runs
FinishWith(p, r) ==
    /\ pc[p] = "inflight"
    /\ op[p] = "getZoneInfo"
    /\ LET out == getZoneInfoFinish(zones, arg[p], doAPIRequest(r))
       IN  IF AfterRoundTrip(doAPIRequest(r).err) # "return" THEN SendAgain(p)
           ELSE /\ zones' = out.zones
                /\ api' = [api EXCEPT ![p] = IF observe THEN doAPIRequest(r) ELSE NoApi]
                /\ ret' = [ret EXCEPT ![p] = [NoRet EXCEPT !.zone = out.zone, !.err = out.err]]
                /\ joined' = [q \in Procs |->
                                IF q # p /\ pc[q] = "wait" /\ arg[q] = arg[p]
                                   /\ out.err.kind = "none"
                                THEN TRUE ELSE joined[q]]
                /\ zonesMu' = DeferredUnlock(p, out.err)
                /\ pc' = [pc EXCEPT ![p] = "ret"]
                /\ PopFrame(p)
                /\ UNCHANGED <<zonesNil, op, sent, observe>>

\* the caller handles the answer the server gave
FinishGetZoneInfo(p) ==
    /\ net[p] # NoResp
    /\ FinishWith(p, net[p])

\* the round trip and the rest of getZoneInfo, seen from the other callers
RoundTrip(p) ==
    /\ net[p] = NoResp
    /\ \E r \in ZoneResponses(req[p].query.name) : FinishWith(p, r)

\* ---------------------------------------------------------------- record operations
\* a record operation up to its round trip: the request is built and sent,
\* unless json.Marshal or http.NewRequestWithContext failed (built is false);
\* failed is what the operation then returns
StartRecordOp(p, o, args, request, built, failed) ==
    /\ RecordOpMayStart(zonesMu)
    /\ NewFrame(p, o)
    /\ arg' = [arg EXCEPT ![p] = NoName]
    /\ in' = [in EXCEPT ![p] = args]
    /\ after' = [after EXCEPT ![p] = "none"]
    /\ expect' = [expect EXCEPT ![p] = EmptyZone]
    /\ IF built
       THEN /\ req' = [req EXCEPT ![p] = request]
            /\ sent' = [sent EXCEPT ![p] = 1]
            /\ ret' = [ret EXCEPT ![p] = NoRet]
            /\ pc' = [pc EXCEPT ![p] = "inflight"]
       ELSE /\ req' = [req EXCEPT ![p] = NoReq]
            /\ sent' = [sent EXCEPT ![p] = 0]
            /\ ret' = [ret EXCEPT ![p] = failed]
            /\ pc' = [pc EXCEPT ![p] = "ret"]
    /\ UNCHANGED <<zones, zonesNil, zonesMu, observe>>

BuildFailed == [NoRet EXCEPT !.err = BuildErr]
EncodeFailed == [NoRet EXCEPT !.err = EncodeErr]

\* createRecord(ctx, zoneInfo, record) up to its round trip; e tells whether
\* json.Marshal(netlifyRecord(record)) succeeds
CallCreateRecord(p, c, e, zoneInfo, record) ==
    StartRecordOp(p, "createRecord",
                  [NoIn EXCEPT !.ctx = c, !.encOk = e, !.zone = zoneInfo, !.record = record],
                  CreateReq(zoneInfo, record),
                  e /\ BuildOk(c, {zoneInfo.ID}),
                  IF e THEN BuildFailed ELSE EncodeFailed)

\* updateRecord(ctx, oldRec, newRec) up to its round trip
CallUpdateRecord(p, c, oldRec, newRec) ==
    StartRecordOp(p, "updateRecord",
                  [NoIn EXCEPT !.ctx = c, !.old = oldRec, !.new = newRec],
                  UpdateReq(oldRec, newRec), BuildOk(c, {oldRec.DNSZoneID, oldRec.ID}),
                  BuildFailed)

\* getDNSRecords(ctx, zoneInfo, rec, matchContent) up to its round trip
CallGetDNSRecords(p, c, zoneInfo, rec, matchContent) ==
    StartRecordOp(p, "getDNSRecords",
                  [NoIn EXCEPT !.ctx = c, !.zone = zoneInfo, !.record = rec,
                               !.matchContent = matchContent],
                  ListReq(zoneInfo, rec, matchContent), BuildOk(c, {zoneInfo.ID}),
                  BuildFailed)

\* doAPIRequest returns r's outcome; the record operation decodes the body and
\* returns
FinishRecordWith(p, r) ==
    /\ pc[p] = "inflight"
    /\ op[p] \in {"createRecord", "updateRecord", "getDNSRecords"}
    /\ LET a == doAPIRequest(r)
           out == IF op[p] = "getDNSRecords" THEN getDNSRecordsFinish(a) ELSE recordFinish(a)
       IN  IF AfterRoundTrip(a.err) # "return" THEN SendAgain(p)
           ELSE /\ api' = [api EXCEPT ![p] = IF observe THEN a ELSE NoApi]
                /\ ret' = [ret EXCEPT ![p] =
                              [NoRet EXCEPT !.rec = out.rec, !.recs = out.recs, !.err = out.err]]
                /\ pc' = [pc EXCEPT ![p] = "ret"]
                /\ PopFrame(p)
                /\ UNCHANGED <<zones, zonesNil, zonesMu, op, sent, joined, observe>>

\* the caller handles the answer the server gave
FinishRecordOp(p) ==
    /\ net[p] # NoResp
    /\ FinishRecordWith(p, net[p])

\* the round trip and the rest of a record operation, seen from the other callers
RecordRoundTrip(p) ==
    /\ net[p] = NoResp
    /\ \E r \in RecordResponses : FinishRecordWith(p, r)

\* ---------------------------------------------------------------- specifications
\* any number of goroutines resolving zones on one Provider
Next ==
    \/ \E p \in Procs, z \in ZoneNames : CallGetZoneInfo(p, z)
    \/ \E p \in Procs : LockAndHit(p)
    \/ \E p \in Procs : LockAndSend(p)
    \/ \E p \in Procs : LockAndBuildFail(p)
    \/ \E p \in Procs : RoundTrip(p)

Spec == Init /\ [][Next]_vars

\* p's Lock() returns and getZoneInfo runs up to its return or its round trip
Acquire(p) == LockAndHit(p) \/ LockAndSend(p) \/ LockAndBuildFail(p)

\* the same callers with a fair mutex (a caller blocked in Lock() gets the mutex
\* if it is free again and again) and HTTP calls that end
SpecFair ==
    /\ Init
    /\ [][Next]_vars
    /\ \A p \in Procs : SF_vars(Acquire(p)) /\ WF_vars(RoundTrip(p))

\* one goroutine using the client, one call after the other
NextOne ==
    \/ \E z \in ZoneNames : CallGetZoneInfo(1, z)
    \/ LockAndHit(1)
    \/ LockAndSend(1)
    \/ LockAndBuildFail(1)
    \/ \E c \in Contexts, e \in BOOLEAN, zi \in ZoneArgs, r \in LibdnsRecords :
           CallCreateRecord(1, c, e, zi, r)
    \/ \E c \in Contexts, o \in OldRecords, n \in DNSRecords : CallUpdateRecord(1, c, o, n)
    \/ \E c \in Contexts, zi \in ZoneArgs, r \in LibdnsRecords, m \in BOOLEAN :
           CallGetDNSRecords(1, c, zi, r, m)
    \/ \E r \in (IF op[1] = "getZoneInfo" THEN ZoneResponses(req[1].query.name)
                 ELSE RecordResponses) : ServerRespond(1, r)
    \/ FinishGetZoneInfo(1)
    \/ FinishRecordOp(1)

SpecOne == InitOne /\ [][NextOne]_vars

\* two goroutines on one Provider: one resolves zones while the other creates,
\* updates and lists records
Resolver == 1
Recorder == 2
RecordCall(p) ==
    \/ \E c \in Contexts, e \in BOOLEAN, zi \in ZoneArgs, r \in LibdnsRecords :
           CallCreateRecord(p, c, e, zi, r)
    \/ \E c \in Contexts, o \in OldRecords, n \in DNSRecords : CallUpdateRecord(p, c, o, n)
    \/ \E c \in Contexts, zi \in ZoneArgs, r \in LibdnsRecords, m \in BOOLEAN :
           CallGetDNSRecords(p, c, zi, r, m)
NextMix ==
    \/ \E z \in ZoneNames : CallGetZoneInfo(Resolver, z)
    \/ LockAndHit(Resolver)
    \/ LockAndSend(Resolver)
    \/ LockAndBuildFail(Resolver)
    \/ RoundTrip(Resolver)
    \/ RecordCall(Recorder)
    \/ RecordRoundTrip(Recorder)

SpecMix == Init /\ [][NextMix]_vars

\* ---------------------------------------------------------------- properties
\* a getZoneInfo call of p that missed the cache and sent its request has returned
ResolvedByFetch(p) == pc[p] = "ret" /\ op[p] = "getZoneInfo" /\ sent[p] = 1

\* p's call has been through doAPIRequest and has returned
RoundTripDone(p) == pc[p] = "ret" /\ sent[p] = 1

\* the round trip of p's call brought a response whose body was read
FullyRead(p) == net[p].kind = "resp" /\ net[p].readOk

\* C1: of two getZoneInfo calls for the same name made one after the other, the
\* second, coming after a successful first, is served from the cache: it sends
\* no HTTP request.
C1_SecondCallSendsNothing ==
    \A p \in Procs : (op[p] = "getZoneInfo" /\ after[p] = "same") => sent[p] = 0

\* C2: once n or n + "." has been resolved, resolving the other form is a cache
\* hit: it sends no request and returns the zone the first call returned.
C2_OtherFormHitsCache ==
    \A p \in Procs :
        (op[p] = "getZoneInfo" /\ after[p] = "other") =>
            /\ sent[p] = 0
            /\ pc[p] = "ret" => (ret[p].err = NoErr /\ ret[p].zone = expect[p])

\* C3: a zone resolution that fails leaves the cache as it was: the cache changes
\* only in a step in which a call returns a zone, and no step of a call that
\* returns an error changes it.
C3_FailureLeavesCache ==
    [][/\ \A p \in Procs :
             (pc[p] # "ret" /\ pc'[p] = "ret" /\ ret'[p].err.kind # "none") => zones' = zones
       /\ zones' # zones =>
             \E p \in Procs : pc[p] = "inflight" /\ pc'[p] = "ret" /\ ret'[p].err.kind = "none"
      ]_vars

\* a resolution failed on the count of zones while the cache held an entry
C3_Witness ==
    \E p \in Procs : pc[p] = "ret" /\ ret[p].err.kind = "count" /\ DOMAIN zones # {}

\* C4: on a cache miss getZoneInfo succeeds exactly when the provider's listing
\* holds one zone, and returns that zone; a listing of zero or of several zones
\* fails with the count and the queried name.
C4_ExactlyOneZone ==
    \A p \in Procs :
        ResolvedByFetch(p) =>
            LET listed == FullyRead(p) /\ net[p].status < 400 /\ net[p].body.shape = "zones"
                zs == net[p].body.items
            IN  /\ ret[p].err.kind = "none" <=> (listed /\ Len(zs) = 1)
                /\ ret[p].err.kind = "none" => ret[p].zone = zs[1]
                /\ (listed /\ Len(zs) # 1) =>
                       /\ ret[p].err = CountErr(Len(zs), req[p].query.name)
                       /\ ret[p].zone = EmptyZone

\* a listing of two zones was refused with its count and the queried name
C4_Witness ==
    \E p \in Procs : ResolvedByFetch(p) /\ ret[p].err = CountErr(2, <<"a">>)
                     /\ Len(net[p].body.items) = 2

\* doAPIRequest returns the body exactly for a response read in full with a status < 400
TransportSuccess(p) ==
    /\ api[p].err = NoErr <=> (FullyRead(p) /\ net[p].status < 400)
    /\ api[p].err = NoErr => api[p].bytes = net[p].body

\* C5 as stated: success exactly for a response read in full with a status < 400,
\* and for every status >= 400 a failure carrying the status and no bytes.
C5_EveryErrorStatusReported ==
    \A p \in Procs :
        RoundTripDone(p) =>
            /\ TransportSuccess(p)
            /\ (net[p].kind = "resp" /\ net[p].status >= 400) =>
                   (api[p].err = StatusErr(net[p].status) /\ api[p].bytes = NilBytes)

\* C5, amended: success exactly for a response read in full with a status < 400,
\* and for every status >= 400 of a response whose body was read a failure
\* carrying the status and no bytes.
C5_ReadErrorStatusReported ==
    \A p \in Procs :
        RoundTripDone(p) =>
            /\ TransportSuccess(p)
            /\ (FullyRead(p) /\ net[p].status >= 400) =>
                   (api[p].err = StatusErr(net[p].status) /\ api[p].bytes = NilBytes)

\* a response with status 400 and a readable body came back as the status failure
C5_Witness ==
    \E p \in Procs : RoundTripDone(p) /\ FullyRead(p) /\ net[p].body # NilBytes
                     /\ api[p].err = StatusErr(400)

\* C6: no invocation of createRecord, updateRecord, getDNSRecords or getZoneInfo
\* sends more than one request, and one that ends in a status or transport
\* failure has sent exactly one.
C6_NoRetry ==
    \A p \in Procs :
        /\ sent[p] <= 1
        /\ (pc[p] = "ret" /\ ret[p].err.kind \in {"status", "transport"}) => sent[p] = 1

\* updateRecord with a stale ID got a 404 and returned it after its one request
C6_Witness ==
    \E p \in Procs : pc[p] = "ret" /\ op[p] = "updateRecord" /\ sent[p] = 1
                     /\ ret[p].err = StatusErr(404)

\* C7: a call that got no response or whose body could not be read returns a
\* transport failure and never the status failure; a call whose response was
\* read in full with a status >= 400 returns the status failure and never a
\* transport failure; the operation hands that failure on unchanged.
C7_FailuresDistinct ==
    \A p \in Procs :
        RoundTripDone(p) =>
            /\ ~FullyRead(p) => api[p].err.kind = "transport"
            /\ (FullyRead(p) /\ net[p].status >= 400) => api[p].err.kind = "status"
            /\ api[p].err.kind \in {"status", "transport"} => ret[p].err = api[p].err

\* an error response whose body could not be read came back as a transport failure
C7_Witness ==
    \E p \in Procs : RoundTripDone(p) /\ net[p].kind = "resp" /\ ~net[p].readOk
                     /\ net[p].status = 500 /\ ret[p].err = ReadErr

\* C8: of concurrent getZoneInfo calls for one name, once the fetch of one has
\* succeeded every other is served from the cache: a call that was waiting when
\* that fetch succeeded sends nothing.
C8_NoDuplicateFetch ==
    \A p \in Procs : joined[p] => sent[p] = 0

\* C9: a cache entry, once there, stays as it is: no step removes it or changes
\* its zone.
C9_EntriesPermanent ==
    [][\A k \in DOMAIN zones : k \in DOMAIN zones' /\ zones'[k] = zones[k]]_vars

\* the fields of rec that are not empty
NonEmptyFields(rec) ==
    {f \in {"ID", "DNSZoneID", "Type", "Content"} : rec[f] # ""}
        \cup (IF rec.Name # NoName THEN {"Name"} ELSE {})
        \cup (IF rec.TTL # 0 THEN {"TTL"} ELSE {})

\* the request of an updateRecord call: PATCH, addressed by oldRec's IDs,
\* carrying the non-empty fields of newRec and nothing else
IsPartialUpdate(p) ==
    /\ req[p].method = "PATCH"
    /\ req[p].path = <<"dns_zones", in[p].old.DNSZoneID, "dns_records", in[p].old.ID>>
    /\ req[p].body.has
    /\ req[p].body.present = NonEmptyFields(in[p].new)
    /\ \A f \in req[p].body.present : req[p].body.val[f] = in[p].new[f]
    /\ in[p].new = [EmptyRec EXCEPT !.TTL = 600] => req[p].body.present = {"TTL"}

AbsoluteIn(name, zoneName) ==
    IF name = NoName \/ name = <<"@">> THEN zoneName ELSE name \o <<".">> \o zoneName

\* C11: the request createRecord sends is a POST to the zone's record collection
\* whose body names the record absolutely within the zone and carries the
\* record's Value as Content; on success the call returns the decoded record
\* with the ID the provider gave it.
C11_CreateSendsAbsoluteName ==
    \A p \in Procs :
        (op[p] = "createRecord" /\ sent[p] = 1) =>
            /\ req[p].method = "POST"
            /\ req[p].path = <<"dns_zones", in[p].zone.ID, "dns_records">>
            /\ req[p].body.val.Name = AbsoluteIn(in[p].record.Name, in[p].zone.Name)
            /\ req[p].body.val.Content = in[p].record.Value
            /\ (pc[p] = "ret" /\ ret[p].err = NoErr) =>
                   (ret[p].rec = net[p].body.items[1] /\ ret[p].rec.ID # "")

\* C12: every request of getDNSRecords filters by the record's type and by its
\* absolute name, and carries content, equal to the record's value, exactly
\* when matchContent is true.
C12_ListFilters ==
    \A p \in Procs :
        (op[p] = "getDNSRecords" /\ sent[p] = 1) =>
            /\ req[p].method = "GET"
            /\ {"name", "type"} \subseteq req[p].query.keys
            /\ req[p].query.type = in[p].record.Type
            /\ req[p].query.name = AbsoluteIn(in[p].record.Name, in[p].zone.Name)
            /\ "content" \in req[p].query.keys <=> in[p].matchContent
            /\ in[p].matchContent => req[p].query.content = in[p].record.Value

\* a listing for "f" in zone "a" without content matching went out with the
\* type and name filters only
C12_Witness ==
    \E p \in Procs : /\ op[p] = "getDNSRecords" /\ sent[p] = 1 /\ ~in[p].matchContent
                     /\ in[p].record.Name = <<"f">> /\ in[p].record.Value = "bar"
                     /\ req[p].query.name = <<"f", ".", "a">>
                     /\ req[p].query.keys = {"name", "type"}

RecordOps == {"createRecord", "updateRecord", "getDNSRecords"}

\* the body doAPIRequest handed to p's call decodes into what the call returns
Decodes(p) ==
    api[p].bytes.shape = (IF op[p] = "getDNSRecords" THEN "records" ELSE "record")

\* C13: a record operation returns each failure as it arose (encoding, building
\* the request, transport, status, decoding) together with an empty result, and
\* returns a result without error only when none arose.
C13_FailuresReturned ==
    \A p \in Procs :
        (op[p] \in RecordOps /\ pc[p] = "ret") =>
            /\ ret[p].err # NoErr => (ret[p].rec = EmptyRec /\ ret[p].recs = <<>>)
            /\ ~in[p].encOk => ret[p].err = EncodeErr
            /\ sent[p] = 0 => ret[p].err.kind \in {"encode", "build"}
            /\ (sent[p] = 1 /\ api[p].err # NoErr) => ret[p].err = api[p].err
            /\ (sent[p] = 1 /\ api[p].err = NoErr /\ ~Decodes(p)) => ret[p].err = DecodeErr
            /\ ret[p].err = NoErr <=> (sent[p] = 1 /\ api[p].err = NoErr /\ Decodes(p))

\* createRecord got a 200 whose body does not decode and returned the decode
\* failure with an empty record
C13_Witness ==
    \E p \in Procs : /\ op[p] = "createRecord" /\ pc[p] = "ret" /\ sent[p] = 1
                     /\ net[p].status = 200 /\ net[p].body = GarbageBody
                     /\ ret[p].err = DecodeErr /\ ret[p].rec = EmptyRec

\* C14: when an operation's round trip ends by the cancellation of the caller's
\* context, the operation returns a transport failure and an empty result, the
\* cache is as it was, and after a zone resolution the lock is free.
C14_CancelLeavesNothing ==
    [][\A p \in Procs :
          (pc[p] = "inflight" /\ net[p].kind = "cancelled" /\ pc'[p] = "ret") =>
              /\ ret'[p].err.kind = "transport"
              /\ ret'[p].zone = EmptyZone /\ ret'[p].rec = EmptyRec /\ ret'[p].recs = <<>>
              /\ zones' = zones /\ zonesNil' = zonesNil
              /\ op[p] = "getZoneInfo" => (zonesMu = p /\ zonesMu' = 0)]_vars

\* a zone resolution whose request was cancelled in flight has returned, with
\* an entry from an earlier resolution still in the cache
C14_Witness ==
    \E p \in Procs : /\ op[p] = "getZoneInfo" /\ pc[p] = "ret" /\ sent[p] = 1
                     /\ net[p] = Cancelled(0) /\ ret[p].err = CancelErr
                     /\ zonesMu = 0 /\ DOMAIN zones # {}

\* C15: at most one getZoneInfo call at a time is past the lock with its request
\* in flight, and that call holds the lock, whatever names the calls are for.
C15_OneResolutionAtATime ==
    /\ Cardinality({p \in Procs : pc[p] = "inflight"}) <= 1
    /\ \A p \in Procs : pc[p] = "inflight" => zonesMu = p

\* one call has its request in flight while a call for another name waits for
\* the lock
C15_Witness ==
    \E p, q \in Procs : /\ pc[p] = "inflight" /\ zonesMu = p
                        /\ pc[q] = "wait" /\ arg[q] # arg[p]

\* s without one trailing ".", if it has any
StripOne(s) ==
    IF Len(s) > 0 /\ s[Len(s)] = "." THEN SubSeq(s, 1, Len(s) - 1) ELSE s

\* C16: the name getZoneInfo looks up in the cache, and the name it queries the
\* provider for, is its argument with exactly one trailing "." removed, or the
\* argument itself when it ends in none.
C16_StripsOneBeforeLookup ==
    \A p \in Procs :
        (op[p] = "getZoneInfo" /\ pc[p] # "idle") =>
            /\ CacheKey(arg[p]) = StripOne(arg[p])
            /\ sent[p] >= 1 => req[p].query.name = StripOne(arg[p])

\* C17: every key of the cache is a name without trailing ".", and at the return
\* of a successful getZoneInfo the entry under its argument without trailing
\* dots is the Zone returned; a call that fetched it still held the lock.
C17_StoredUnderNormalizedName ==
    /\ [](\A k \in DOMAIN zones : Len(k) = 0 \/ k[Len(k)] # ".")
    /\ [][\A p \in Procs :
            (op[p] = "getZoneInfo" /\ pc[p] \in {"wait", "inflight"}
             /\ pc'[p] = "ret" /\ ret'[p].err = NoErr) =>
                /\ TrimRight(arg[p]) \in DOMAIN zones'
                /\ zones'[TrimRight(arg[p])] = ret'[p].zone
                /\ pc[p] = "inflight" => zonesMu = p]_vars

\* a call that fetched its Zone has returned it and the cache holds it under
\* the undotted name
C17_Witness ==
    \E p \in Procs : /\ pc[p] = "ret" /\ sent[p] = 1 /\ ret[p].err = NoErr
                     /\ <<"a">> \in DOMAIN zones /\ zones[<<"a">>] = ret[p].zone

\* C18: no caller that is not inside getZoneInfo past its Lock() holds the lock,
\* and every getZoneInfo call that has begun returns.
C18_EveryCallReturns ==
    /\ [](\A p \in Procs : pc[p] # "inflight" => zonesMu # p)
    /\ \A p \in Procs : (pc[p] \in {"wait", "inflight"}) ~> (pc[p] = "ret")

\* a call waits for the lock, which is free after another call's failed
\* resolution
C18_Witness ==
    \E p, q \in Procs : /\ pc[p] = "wait" /\ pc[q] = "ret" /\ sent[q] = 1
                        /\ ret[q].err.kind \in {"status", "transport", "decode", "count"}
                        /\ zonesMu = 0

\* C19: a step of createRecord, updateRecord or getDNSRecords leaves the cache
\* and the lock as they were, and while a zone resolution holds the lock a
\* record operation can still be called and an in-flight one can still return.
C19_RecordOpsLeaveCacheAndLock ==
    /\ [][\A p \in Procs :
            (op'[p] \in RecordOps /\ <<pc[p], op[p], in[p], sent[p], ret[p]>>
                                      # <<pc'[p], op'[p], in'[p], sent'[p], ret'[p]>>) =>
                (zones' = zones /\ zonesNil' = zonesNil /\ zonesMu' = zonesMu)]_vars
    /\ [](zonesMu # 0 =>
            /\ pc[Recorder] # "inflight" => ENABLED RecordCall(Recorder)
            /\ pc[Recorder] = "inflight" => ENABLED RecordRoundTrip(Recorder))

\* a record operation has gone through its round trip and returned while a zone
\* resolution holds the lock and the cache has an entry
C19_Witness ==
    /\ zonesMu = Resolver /\ pc[Resolver] = "inflight" /\ DOMAIN zones # {}
    /\ pc[Recorder] = "ret" /\ op[Recorder] = "createRecord" /\ sent[Recorder] = 1
    /\ ret[Recorder].err = NoErr
====
